---- MODULE Spec2Model ----
(***************************************************************************)
(* Model of the Sidebar panel of src/components/Sidebar.tsx: the panel's   *)
(* local state, the two selections its parent holds, the derived count     *)
(* maps and sorted lists, and one action per event handler.                *)
(*                                                                         *)
(* A JavaScript string is the sequence of its UTF-16 code units; null is   *)
(* the one-element sequence << -1 >>, which no string equals.              *)
(***************************************************************************)
EXTENDS Integers, Sequences, FiniteSets, TLC

VARIABLES
    items,              \* props.items: the parent's item list
    selectedTag,        \* props.selectedTag: string or Null
    selectedCategory,   \* props.selectedCategory: string or Null
    mode,               \* useState 'category' | 'tag'
    isDragOver,         \* useState string or Null
    editingTag,         \* useState string or Null (never set by the panel)
    editValue,          \* useState string (never set by the panel)
    newCategoryName,    \* useState string: the new-category input buffer
    customCategories,   \* useState string[]: locally created categories
    event,              \* history: the last event the panel handled
    calls               \* history: the parent callbacks that event invoked, in order

vars == << items, selectedTag, selectedCategory, mode, isDragOver, editingTag,
           editValue, newCategoryName, customCategories, event, calls >>

local == << mode, isDragOver, editingTag, editValue, newCategoryName, customCategories >>

----------------------------------------------------------------------------
(* Bounds and input sets *)

MaxItems == 1

Null == << -1 >>

EmptyString == << >>

\* '未分类' (U+672A U+5206 U+7C7B)
Uncategorized == << 26410, 20998, 31867 >>

\* "__proto__": the accessor key every plain object inherits
Proto == << 95, 95, 112, 114, 111, 116, 111, 95, 95 >>

\* The items the parent's list is drawn from, by the two fields the panel reads:
\* category (a string, empty when the item has none) and tags (in the order
\* forEach visits them, no tag twice):
\*   {category: "", tags: []}, {category: "A", tags: ["b", "a"]},
\*   {category: "__proto__", tags: ["__proto__"]}
ItemPool ==
    { [category |-> EmptyString, tags |-> << >>],
      [category |-> << 65 >>,    tags |-> << << 98 >>, << 97 >> >>],
      [category |-> Proto,       tags |-> << Proto >>] }

ItemLists == UNION { [1..n -> ItemPool] : n \in 0..MaxItems }

\* Texts typed into the new-category input: "", " ", "\tA ", "__proto__"
TextInputs == { EmptyString, << 32 >>, << 9, 65, 32 >>, Proto }

\* dataTransfer payloads: "" and "item-42"
DragPayloads == { EmptyString, << 105, 116, 101, 109, 45, 52, 50 >> }

\* Keys pressed in the new-category input
Keys == { "Enter", "a" }

----------------------------------------------------------------------------
(* String.prototype.trim, Array.prototype.sort (default comparator),       *)
(* Array.prototype.includes, new Set(...)                                  *)

\* WhiteSpace and LineTerminator code units that trim strips (those in use here)
WhiteSpace == { 9, 10, 11, 12, 13, 32, 160, 12288 }

RECURSIVE trimStart(_)
trimStart(s) ==
    IF s = << >> THEN << >>
    ELSE IF Head(s) \in WhiteSpace THEN trimStart(Tail(s))
    ELSE s

RECURSIVE trimEnd(_)
trimEnd(s) ==
    IF s = << >> THEN << >>
    ELSE IF s[Len(s)] \in WhiteSpace THEN trimEnd(SubSeq(s, 1, Len(s) - 1))
    ELSE s

trim(s) == trimEnd(trimStart(s))

\* a < b in the default sort order: code unit by code unit, a proper prefix first
RECURSIVE StrLess(_, _)
StrLess(a, b) ==
    IF b = << >> THEN FALSE
    ELSE IF a = << >> THEN TRUE
    ELSE IF Head(a) # Head(b) THEN Head(a) < Head(b)
    ELSE StrLess(Tail(a), Tail(b))

RECURSIVE Insert(_, _)
Insert(x, sorted) ==
    IF sorted = << >> THEN << x >>
    ELSE IF StrLess(x, Head(sorted)) THEN << x >> \o sorted
    ELSE << Head(sorted) >> \o Insert(x, Tail(sorted))

RECURSIVE sort(_)
sort(arr) ==
    IF arr = << >> THEN << >>
    ELSE Insert(Head(arr), sort(Tail(arr)))

includes(arr, x) == \E i \in 1..Len(arr) : arr[i] = x

\* Array.from(new Set(arr)): first occurrences, in order
RECURSIVE ArrayFromSet(_)
ArrayFromSet(arr) ==
    IF arr = << >> THEN << >>
    ELSE LET init == ArrayFromSet(SubSeq(arr, 1, Len(arr) - 1))
             last == arr[Len(arr)]
         IN  IF includes(init, last) THEN init ELSE Append(init, last)

Range(arr) == { arr[i] : i \in 1..Len(arr) }

----------------------------------------------------------------------------
(* The accumulator `{} as Record<string, number>`: a plain object, its own *)
(* properties in insertion order, inheriting from Object.prototype.        *)

Undefined == [kind |-> "undefined", n |-> 0]
Num(n)    == [kind |-> "number", n |-> n]
\* Object.prototype itself, what acc["__proto__"] reads
ObjectPrototype == [kind |-> "object", n |-> 0]
\* the string a non-number + 1 concatenates to
Concatenated == [kind |-> "string", n |-> 0]

EmptyObject == << >>

ObjectKeys(obj) == [i \in 1..Len(obj) |-> obj[i].key]

HasOwn(obj, key) == \E i \in 1..Len(obj) : obj[i].key = key

\* obj[key]
Get(obj, key) ==
    IF HasOwn(obj, key)
    THEN (CHOOSE p \in Range(obj) : p.key = key).value
    ELSE IF key = Proto THEN ObjectPrototype
    ELSE Undefined

\* obj[key] = value; the __proto__ setter ignores a value that is no object
Put(obj, key, value) ==
    IF key = Proto THEN obj
    ELSE IF HasOwn(obj, key)
    THEN [i \in 1..Len(obj) |->
             IF obj[i].key = key THEN [key |-> key, value |-> value] ELSE obj[i]]
    ELSE Append(obj, [key |-> key, value |-> value])

\* (v || 0) + 1
OrZeroPlusOne(v) ==
    IF v.kind = "number" THEN Num(v.n + 1)
    ELSE IF v.kind = "undefined" THEN Num(1)
    ELSE Concatenated

Increment(acc, key) == Put(acc, key, OrZeroPlusOne(Get(acc, key)))

RECURSIVE forEachTag(_, _)
forEachTag(acc, tags) ==
    IF tags = << >> THEN acc
    ELSE forEachTag(Increment(acc, Head(tags)), Tail(tags))

RECURSIVE tagCountsOf(_)
tagCountsOf(its) ==
    IF its = << >> THEN EmptyObject
    ELSE forEachTag(tagCountsOf(SubSeq(its, 1, Len(its) - 1)), its[Len(its)].tags)

\* item.category || '未分类'
categoryOf(item) ==
    IF item.category = EmptyString THEN Uncategorized ELSE item.category

RECURSIVE categoryCountsOf(_)
categoryCountsOf(its) ==
    IF its = << >> THEN EmptyObject
    ELSE Increment(categoryCountsOf(SubSeq(its, 1, Len(its) - 1)),
                   categoryOf(its[Len(its)]))

allCategoriesOf(its, custom) ==
    sort(ArrayFromSet(ObjectKeys(categoryCountsOf(its)) \o custom \o << Uncategorized >>))

tagCounts      == tagCountsOf(items)
sortedTags     == sort(ObjectKeys(tagCounts))
categoryCounts == categoryCountsOf(items)
allCategories  == allCategoriesOf(items, customCategories)

\* {categoryCounts[cat] || 0}: what the row of cat shows as its count
shownCategoryCount(its, cat) ==
    LET v == Get(categoryCountsOf(its), cat)
    IN  IF v.kind = "undefined" \/ (v.kind = "number" /\ v.n = 0) THEN Num(0) ELSE v

\* The rows the list renders in the active mode
Rows == IF mode = "tag" THEN Range(sortedTags) ELSE Range(allCategories)

----------------------------------------------------------------------------
(* Events and callbacks *)

Event(type, data, target, ok) ==
    [type |-> type, data |-> data, target |-> target, ok |-> ok]

Call(cb, kind, a1, a2) == [cb |-> cb, kind |-> kind, a1 |-> a1, a2 |-> a2]

onSelectTag(tag)          == Call("onSelectTag", "none", tag, Null)
onSelectCategory(cat)     == Call("onSelectCategory", "none", cat, Null)
onDropOnTag(itemId, tag)  == Call("onDropOnTag", "none", itemId, tag)
onDropOnCategory(itemId, cat) == Call("onDropOnCategory", "none", itemId, cat)
onRenameTag(old, new)     == Call("onRenameTag", "none", old, new)
onDeleteGroup(type, name) == Call("onDeleteGroup", type, name, Null)

\* The parent applies the select callbacks it receives, in order.
RECURSIVE AppliedTo(_, _, _)
AppliedTo(cb, current, cs) ==
    IF cs = << >> THEN current
    ELSE AppliedTo(cb, IF Head(cs).cb = cb THEN Head(cs).a1 ELSE current, Tail(cs))

Invoke(cs) ==
    /\ calls' = cs
    /\ selectedTag' = AppliedTo("onSelectTag", selectedTag, cs)
    /\ selectedCategory' = AppliedTo("onSelectCategory", selectedCategory, cs)

----------------------------------------------------------------------------

Init ==
    /\ items \in ItemLists
    /\ selectedTag = Null
    /\ selectedCategory = Null
    /\ mode = "category"
    /\ isDragOver = Null
    /\ editingTag = Null
    /\ editValue = EmptyString
    /\ newCategoryName = EmptyString
    /\ customCategories = << >>
    /\ event = Event("mount", Null, Null, FALSE)
    /\ calls = << >>

\* The parent re-renders the panel with another item list.
ParentSetItems(its) ==
    /\ items' = its
    /\ event' = Event("items", Null, Null, FALSE)
    /\ calls' = << >>
    /\ UNCHANGED << selectedTag, selectedCategory, local >>

\* Variant: the category tab clears the category selection instead of the tag's
ClickCategoryTab_WrongCallback ==
    /\ mode' = "category"
    /\ Invoke(<< onSelectCategory(Null) >>)
    /\ event' = Event("categoryTab", Null, Null, FALSE)
    /\ UNCHANGED << items, isDragOver, editingTag, editValue, newCategoryName,
                    customCategories >>

\* Tab button 分类 (Folders)
ClickCategoryTab ==
    /\ mode' = "category"
    /\ Invoke(<< onSelectTag(Null) >>)
    /\ event' = Event("categoryTab", Null, Null, FALSE)
    /\ UNCHANGED << items, isDragOver, editingTag, editValue, newCategoryName,
                    customCategories >>

\* Variant: the tag tab switches the mode and leaves the category selection
ClickTagTab_KeepsCategory ==
    /\ mode' = "tag"
    /\ Invoke(<< >>)
    /\ event' = Event("tagTab", Null, Null, FALSE)
    /\ UNCHANGED << items, isDragOver, editingTag, editValue, newCategoryName,
                    customCategories >>

\* Tab button 标签 (Tags)
ClickTagTab ==
    /\ mode' = "tag"
    /\ Invoke(<< onSelectCategory(Null) >>)
    /\ event' = Event("tagTab", Null, Null, FALSE)
    /\ UNCHANGED << items, isDragOver, editingTag, editValue, newCategoryName,
                    customCategories >>

\* Button 全部资料
ClickShowAll ==
    /\ Invoke(<< onSelectTag(Null), onSelectCategory(Null) >>)
    /\ event' = Event("showAll", Null, Null, FALSE)
    /\ UNCHANGED << items, local >>

\* The callbacks a click on the row button of `name` invokes
rowClick(name) ==
    IF mode = "tag" THEN << onSelectTag(name) >> ELSE << onSelectCategory(name) >>

ClickRow(name) ==
    /\ name \in Rows
    /\ Invoke(rowClick(name))
    /\ event' = Event("row", Null, name, FALSE)
    /\ UNCHANGED << items, local >>

handleDragOver(target) ==
    /\ target \in Rows
    /\ isDragOver' = target
    /\ event' = Event("dragOver", Null, target, FALSE)
    /\ calls' = << >>
    /\ UNCHANGED << items, selectedTag, selectedCategory, mode, editingTag, editValue,
                    newCategoryName, customCategories >>

\* onDragLeave of a row: () => setIsDragOver(null)
DragLeave ==
    /\ Rows # {}
    /\ isDragOver' = Null
    /\ event' = Event("dragLeave", Null, Null, FALSE)
    /\ calls' = << >>
    /\ UNCHANGED << items, selectedTag, selectedCategory, mode, editingTag, editValue,
                    newCategoryName, customCategories >>

\* Variant: the drop goes to drop-on-category whatever the mode
dropCalls_IgnoresMode(itemId, target) ==
    IF itemId # EmptyString THEN << onDropOnCategory(itemId, target) >> ELSE << >>

\* Variant: the payload is not tested for emptiness
dropCalls_NoPayloadCheck(itemId, target) ==
    IF mode = "tag" THEN << onDropOnTag(itemId, target) >>
    ELSE << onDropOnCategory(itemId, target) >>

\* The callbacks handleDrop invokes for the payload itemId on the row target
dropCalls(itemId, target) ==
    IF itemId # EmptyString
    THEN IF mode = "tag" THEN << onDropOnTag(itemId, target) >>
         ELSE << onDropOnCategory(itemId, target) >>
    ELSE << >>

handleDrop(itemId, target) ==
    /\ target \in Rows
    /\ isDragOver' = Null
    /\ Invoke(dropCalls(itemId, target))
    /\ event' = Event("drop", itemId, target, FALSE)
    /\ UNCHANGED << items, mode, editingTag, editValue, newCategoryName,
                    customCategories >>

\* onChange of the new-category input (rendered in category mode only)
ChangeNewCategoryName(text) ==
    /\ mode = "category"
    /\ newCategoryName' = text
    /\ event' = Event("change", text, Null, FALSE)
    /\ calls' = << >>
    /\ UNCHANGED << items, selectedTag, selectedCategory, mode, isDragOver, editingTag,
                    editValue, customCategories >>

\* Variant: the input is cleared outside the non-blank branch
handleAddCategory_ClearsAlways ==
    /\ customCategories' =
           IF trim(newCategoryName) # EmptyString
              /\ ~includes(allCategories, trim(newCategoryName))
           THEN Append(customCategories, trim(newCategoryName))
           ELSE customCategories
    /\ newCategoryName' = EmptyString

\* The state updates of handleAddCategory
handleAddCategory ==
    IF trim(newCategoryName) # EmptyString
    THEN LET name == trim(newCategoryName)
         IN  /\ customCategories' =
                    IF ~includes(allCategories, name)
                    THEN Append(customCategories, name)
                    ELSE customCategories
             /\ newCategoryName' = EmptyString
    ELSE UNCHANGED << customCategories, newCategoryName >>

\* onClick of the add button
ClickAddCategory ==
    /\ mode = "category"
    /\ handleAddCategory
    /\ event' = Event("submit", Null, Null, FALSE)
    /\ calls' = << >>
    /\ UNCHANGED << items, selectedTag, selectedCategory, mode, isDragOver, editingTag,
                    editValue >>

\* onKeyDown of the new-category input: e.key === 'Enter' && handleAddCategory()
KeyDown(key) ==
    /\ mode = "category"
    /\ IF key = "Enter"
       THEN /\ handleAddCategory
            /\ event' = Event("submit", Null, Null, FALSE)
       ELSE /\ UNCHANGED << customCategories, newCategoryName >>
            /\ event' = Event("key", Null, Null, FALSE)
    /\ calls' = << >>
    /\ UNCHANGED << items, selectedTag, selectedCategory, mode, isDragOver, editingTag,
                    editValue >>

\* Variant: the click on the delete control bubbles to the row button
stopPropagation_Missing == FALSE

\* e.stopPropagation() in handleBulkDelete: the click does not reach the row button
stopPropagation == TRUE

\* The callbacks a click on the delete control of `name` invokes; confirmed is
\* the answer confirm() returns
bulkDeleteCalls(name, confirmed) ==
    (IF confirmed THEN << onDeleteGroup(mode, name) >> ELSE << >>)
        \o (IF stopPropagation THEN << >> ELSE rowClick(name))

\* Variant: a confirmed delete also drops the name from the custom categories
handleBulkDelete_ForgetsCustom(name, confirmed) ==
    /\ name \in Rows
    /\ Invoke(bulkDeleteCalls(name, confirmed))
    /\ event' = Event("delete", Null, name, confirmed)
    /\ customCategories' =
           IF confirmed
           THEN SelectSeq(customCategories, LAMBDA c : c # name)
           ELSE customCategories
    /\ UNCHANGED << items, mode, isDragOver, editingTag, editValue, newCategoryName >>

handleBulkDelete(name, confirmed) ==
    /\ name \in Rows
    /\ Invoke(bulkDeleteCalls(name, confirmed))
    /\ event' = Event("delete", Null, name, confirmed)
    /\ UNCHANGED << items, local >>

Next ==
    \/ \E its \in ItemLists : ParentSetItems(its)
    \/ ClickCategoryTab
    \/ ClickTagTab
    \/ ClickShowAll
    \/ \E name \in Rows : ClickRow(name)
    \/ \E target \in Rows : handleDragOver(target)
    \/ DragLeave
    \/ \E itemId \in DragPayloads, target \in Rows : handleDrop(itemId, target)
    \/ \E text \in TextInputs : ChangeNewCategoryName(text)
    \/ ClickAddCategory
    \/ \E key \in Keys : KeyDown(key)
    \/ \E name \in Rows, confirmed \in BOOLEAN : handleBulkDelete(name, confirmed)

Spec == Init /\ [][Next]_vars

----------------------------------------------------------------------------
(* Vocabulary of the properties *)

Submitted == event.type = "submit"

IsSorted(arr) == \A i \in 1..Len(arr) - 1 : StrLess(arr[i], arr[i + 1])

NoDuplicates(arr) == \A i, j \in 1..Len(arr) : arr[i] = arr[j] => i = j

\* The categories the items carry, an empty one read as the sentinel
ObservedCategories ==
    { IF items[i].category = EmptyString THEN Uncategorized ELSE items[i].category :
        i \in 1..Len(items) }

ObservedTags == UNION { Range(items[i].tags) : i \in 1..Len(items) }

ItemsIn(cat) ==
    Cardinality({ i \in 1..Len(items) :
        (IF items[i].category = EmptyString THEN Uncategorized ELSE items[i].category) = cat })

ItemsCarrying(tag) == Cardinality({ i \in 1..Len(items) : tag \in Range(items[i].tags) })

\* The sum of the values of a count map, 0 - 1 when a value is no number
RECURSIVE SumOfValues(_)
SumOfValues(obj) ==
    IF obj = << >> THEN 0
    ELSE LET rest == SumOfValues(Tail(obj))
         IN  IF rest < 0 \/ Head(obj).value.kind # "number" THEN 0 - 1
             ELSE Head(obj).value.n + rest

RECURSIVE SumOfLengths(_)
SumOfLengths(its) ==
    IF its = << >> THEN 0 ELSE Len(Head(its).tags) + SumOfLengths(Tail(its))

\* A count map whose keys are exactly K, each value the number count(k)
IsCountMap(obj, K, count(_)) ==
    /\ Range(ObjectKeys(obj)) = K
    /\ \A k \in K : Get(obj, k) = Num(count(k))

SelectCallbacks == { "onSelectTag", "onSelectCategory" }

----------------------------------------------------------------------------
(* C1 *)

\* C1 as stated: submitting the new-category input while its text is empty or
\* whitespace-only leaves the category universe unchanged and leaves the input
\* buffer empty.
C1_BlankSubmitClearsInput ==
    [][(Submitted' /\ trim(newCategoryName) = EmptyString)
          => (allCategoriesOf(items', customCategories') = allCategories /\ newCategoryName' = EmptyString)]_vars

\* C1 amended: submitting the new-category input while its text is empty or
\* whitespace-only changes neither the category universe, nor the custom
\* categories, nor the input buffer: whitespace-only text stays in the input.
C1_BlankSubmitChangesNothing ==
    [][(Submitted' /\ trim(newCategoryName) = EmptyString)
          => /\ allCategoriesOf(items', customCategories') = allCategories
             /\ customCategories' = customCategories
             /\ newCategoryName' = newCategoryName]_vars

C1_Witness ==
    /\ Submitted
    /\ newCategoryName = << 32 >>

----------------------------------------------------------------------------
(* C2 *)

\* C2: the category tab sets mode to category and invokes select-tag(none), the
\* tag tab sets mode to tag and invokes select-category(none); with the parent
\* applying the callbacks, right after the switch the other mode's selection is
\* none.
C2_TabSwitchClearsOther ==
    /\ event.type = "categoryTab"
          => /\ mode = "category"
             /\ calls = << Call("onSelectTag", "none", Null, Null) >>
             /\ selectedTag = Null
    /\ event.type = "tagTab"
          => /\ mode = "tag"
             /\ calls = << Call("onSelectCategory", "none", Null, Null) >>
             /\ selectedCategory = Null

C2_Witness ==
    /\ event.type = "tagTab"
    /\ mode = "tag"
    /\ selectedCategory = Null
    /\ customCategories # << >>

----------------------------------------------------------------------------
(* C3 *)

\* C3: a drop with a non-empty payload id invokes exactly one callback,
\* drop-on-tag(id, row) in tag mode and drop-on-category(id, row) in category
\* mode, the id passed through as it is; a drop with an empty payload invokes
\* none.
C3_DropInvokesByMode ==
    event.type = "drop" =>
        IF event.data # EmptyString
        THEN calls = << Call(IF mode = "tag" THEN "onDropOnTag" ELSE "onDropOnCategory",
                             "none", event.data, event.target) >>
        ELSE calls = << >>

C3_Witness ==
    /\ event.type = "drop"
    /\ mode = "tag"
    /\ event.data # EmptyString
    /\ Len(calls) = 1

----------------------------------------------------------------------------
(* C4 *)

\* C4: a click on a row's delete control invokes delete-group once with
\* (active mode, row name) when the prompt is confirmed and nothing when it is
\* declined; it never invokes a select callback and changes no local state.
C4_DeleteOnlyOnConfirm ==
    [][event'.type = "delete"
          => /\ calls' = IF event'.ok
                         THEN << Call("onDeleteGroup", mode, event'.target, Null) >>
                         ELSE << >>
             /\ \A i \in 1..Len(calls') : calls'[i].cb \notin SelectCallbacks
             /\ local' = local
             /\ selectedTag' = selectedTag
             /\ selectedCategory' = selectedCategory]_vars

C4_Witness ==
    /\ event.type = "delete"
    /\ event.ok
    /\ mode = "tag"
    /\ calls = << Call("onDeleteGroup", "tag", event.target, Null) >>

----------------------------------------------------------------------------
(* C5 *)

\* C5: in every reachable state the category universe contains the sentinel,
\* has no duplicates, is sorted ascending and is the union of the categories
\* of the items, the custom categories and the sentinel; the tag list is
\* sorted ascending without duplicates.
C5_UniverseIsSortedUnion ==
    /\ includes(allCategories, Uncategorized)
    /\ NoDuplicates(allCategories)
    /\ IsSorted(allCategories)
    /\ Range(allCategories) =
           ObservedCategories \cup Range(customCategories) \cup { Uncategorized }
    /\ NoDuplicates(sortedTags)
    /\ IsSorted(sortedTags)

----------------------------------------------------------------------------
(* C6 *)

\* C6: for every item list the category counts sum to the number of items,
\* each item in the bucket of its category (the sentinel's when it has none),
\* and the tag counts sum to the number of (item, tag) pairs, tagCounts[t]
\* being the number of items that carry t.
C6_CountsPartitionItems ==
    /\ SumOfValues(categoryCounts) = Len(items)
    /\ IsCountMap(categoryCounts, ObservedCategories, ItemsIn)
    /\ SumOfValues(tagCounts) = SumOfLengths(items)
    /\ IsCountMap(tagCounts, ObservedTags, ItemsCarrying)

----------------------------------------------------------------------------
(* C7 *)

\* C7: a submission adds the trimmed name to the custom categories exactly
\* when it is non-empty and not in the category universe, and leaves them
\* unchanged otherwise; after an add the name is in the universe with count 0;
\* a non-blank submission, added or duplicate, clears the input.
C7_SubmitAddsNewName ==
    [][Submitted' =>
          LET name  == trim(newCategoryName)
              adds  == name # EmptyString /\ ~includes(allCategories, name)
          IN  /\ customCategories' =
                     IF adds THEN Append(customCategories, name) ELSE customCategories
              /\ adds => /\ includes(allCategoriesOf(items', customCategories'), name)
                         /\ shownCategoryCount(items', name) = Num(0)
              /\ name # EmptyString => newCategoryName' = EmptyString]_vars

----------------------------------------------------------------------------
(* C8 *)

\* C8: rename-tag is never invoked; drag-over, drag-leave, text change and
\* submission invoke no callback; callbacks come only from tab clicks, show-all,
\* row clicks, drops with a non-empty payload and confirmed deletes.
C8_CallbacksOnlyOnGestures ==
    /\ \A i \in 1..Len(calls) : calls[i].cb # "onRenameTag"
    /\ event.type \in { "dragOver", "dragLeave", "change", "submit", "key" }
          => calls = << >>
    /\ calls # << >> =>
          \/ event.type \in { "categoryTab", "tagTab", "showAll", "row" }
          \/ event.type = "drop" /\ event.data # EmptyString
          \/ event.type = "delete" /\ event.ok

C8_Witness ==
    /\ Submitted
    /\ customCategories = << << 65 >> >>
    /\ calls = << >>

----------------------------------------------------------------------------
(* C9 *)

\* C9: started in category mode with both selections none and a parent that
\* applies every select call, category mode implies no tag is selected and tag
\* mode implies no category is selected.
C9_OneSelectionAtMost ==
    /\ mode = "category" => selectedTag = Null
    /\ mode = "tag" => selectedCategory = Null

C9_Witness ==
    /\ mode = "tag"
    /\ event.type = "row"
    /\ selectedTag # Null
    /\ selectedCategory = Null

----------------------------------------------------------------------------
(* C10 *)

\* C10: no step removes a name from the custom categories, a confirmed bulk
\* delete included, and every custom category is in the category universe
\* whatever the item list is.
C10_CustomCategoriesOnlyGrow ==
    [][/\ \A i \in 1..Len(customCategories) :
              includes(customCategories', customCategories[i])
       /\ \A its \in { items' }, custom \in { customCategories' } :
              \A i \in 1..Len(custom) : includes(allCategoriesOf(its, custom), custom[i])
       /\ event'.type = "delete" => customCategories' = customCategories]_vars

C10_Witness ==
    /\ event.type = "delete"
    /\ event.ok
    /\ includes(customCategories, event.target)
    /\ event.target \notin ObservedCategories
    /\ calls = << Call("onDeleteGroup", "category", event.target, Null) >>

====
